---------------------------- MODULE Spec2Model ----------------------------
(***************************************************************************)
(* api-tester (src/main.rs): command-line HTTP load generator.             *)
(*                                                                         *)
(* main parses the argument list, builds one reqwest client, spawns        *)
(* num_threads tokio tasks running fetch_data, joins them and prints the   *)
(* average of the response times the tasks pushed into the shared          *)
(* Arc<Mutex<Vec<f64>>>.                                                   *)
(*                                                                         *)
(* A string is a sequence of one-character strings, so that to_lowercase,  *)
(* starts_with and parse are computed on the characters.  Indices of args  *)
(* are those of the source: args[0] is the program name, args[1] the URL.  *)
(***************************************************************************)
EXTENDS Integers, Sequences, FiniteSets, TLC

---------------------------------------------------------------------------
(* Bounds of the exploration *)

\* most tokens after the program name in an exhaustively enumerated list
MaxArgs == 3
\* largest -totalCalls value with which the pool is explored
MaxCalls == 3
\* largest -numThreads value with which the pool is explored
MaxThreads == 2
\* response times are 1..MaxLatency milliseconds
MaxLatency == 2
\* bounds of the launch-loop specification SpecAssign
MaxAssignCalls == 8
MaxAssignThreads == 4
\* number of tasks, of one call each, of the specification SpecMany
ManyThreads == 3
\* most tokens after the URL in the argument lists of the specification SpecScan
MaxScanArgs == 4

---------------------------------------------------------------------------
(* Strings *)

Upper == <<"A","B","C","D","E","F","G","H","I","J","K","L","M",
           "N","O","P","Q","R","S","T","U","V","W","X","Y","Z">>
Lower == <<"a","b","c","d","e","f","g","h","i","j","k","l","m",
           "n","o","p","q","r","s","t","u","v","w","x","y","z">>
Digits == <<"0","1","2","3","4","5","6","7","8","9">>

ToLowerChar(c) ==
    IF \E k \in 1..Len(Upper) : Upper[k] = c
    THEN Lower[CHOOSE k \in 1..Len(Upper) : Upper[k] = c]
    ELSE c

\* str::to_lowercase
to_lowercase(s) == [k \in 1..Len(s) |-> ToLowerChar(s[k])]

\* str::starts_with
starts_with(s, p) == Len(s) >= Len(p) /\ SubSeq(s, 1, Len(p)) = p

IsDigit(c) == \E d \in 1..Len(Digits) : Digits[d] = c
DigitVal(c) == (CHOOSE d \in 1..Len(Digits) : Digits[d] = c) - 1

RECURSIVE DigitsVal(_)
DigitsVal(s) ==
    IF s = <<>> THEN 0
    ELSE 10 * DigitsVal(SubSeq(s, 1, Len(s) - 1)) + DigitVal(s[Len(s)])

\* the result of a failed parse
ParseErr == -1

\* str::parse::<usize>() / ::<u64>(): an optional '+', then one or more
\* decimal digits; anything else (empty, a '-' sign, a letter) is an Err.
parse(s) ==
    LET body == IF s # <<>> /\ s[1] = "+" THEN Tail(s) ELSE s
    IN  IF body # <<>> /\ \A k \in 1..Len(body) : IsDigit(body[k])
        THEN DigitsVal(body)
        ELSE ParseErr

\* the decimal numeral of n < 100, to write argument lists with
Numeral(n) ==
    IF n < 10 THEN <<Digits[n + 1]>>
    ELSE <<Digits[(n \div 10) + 1], Digits[(n % 10) + 1]>>

---------------------------------------------------------------------------
(* Tokens of the command line *)

Prog == <<"a","p","i">>
UrlHttp == <<"h","t","t","p",":","h">>
UrlHttps == <<"H","t","T","P","S",":","h">>
UrlFtp == <<"f","t","p",":","h">>
HelpQ == <<"-","?">>
HelpLong == <<"-","-","h","e","l","p">>
FTotalCalls == <<"-","t","o","t","a","l","C","a","l","l","s">>
FNumThreads == <<"-","n","u","m","T","h","r","e","a","d","s">>
FSleepTime == <<"-","s","l","e","e","p","T","i","m","e">>
FRequestTimeOut == <<"-","r","e","q","u","e","s","t","T","i","m","e","O","u","t">>
FConnectTimeOut == <<"-","c","o","n","n","e","c","t","T","i","m","e","O","u","t">>
FReuseConnects == <<"-","r","e","u","s","e","C","o","n","n","e","c","t","s">>
FKeepConnectsOpen == <<"-","k","e","e","p","C","o","n","n","e","c","t","s","O","p","e","n">>
Unknown == <<"-","v">>
NotInt == <<"2","x">>
Negative == <<"-","1">>

HelpFlags == {HelpQ, HelpLong}
NumericFlags == {FTotalCalls, FNumThreads, FSleepTime, FRequestTimeOut, FConnectTimeOut}
BoolFlags == {FReuseConnects, FKeepConnectsOpen}

Tokens ==
    {UrlHttp, UrlHttps, UrlFtp, Unknown, NotInt, Negative}
    \cup HelpFlags \cup NumericFlags \cup BoolFlags
    \cup {Numeral(n) : n \in 0..MaxCalls}

\* args as the source indexes it: a function on 0..len-1
MkArgs(s) == [k \in 0..(Len(s) - 1) |-> s[k + 1]]
ArgsLen(a) == Cardinality(DOMAIN a)

RECURSIVE SeqsUpTo(_, _)
SeqsUpTo(S, n) ==
    IF n = 0 THEN {<<>>}
    ELSE LET shorter == SeqsUpTo(S, n - 1)
         IN  shorter \cup {Append(s, t) : s \in {x \in shorter : Len(x) = n - 1}, t \in S}

\* every argument list of at most MaxArgs tokens
ShortArgLists == {MkArgs(<<Prog>> \o s) : s \in SeqsUpTo(Tokens, MaxArgs)}

\* argument lists that set both counts small enough for the pool to be explored
RunArgs(url, t, n, tail) ==
    MkArgs(<<Prog, url, FTotalCalls, Numeral(t), FNumThreads, Numeral(n)>> \o tail)

BoolTails == {<<>>, <<FReuseConnects>>, <<FKeepConnectsOpen>>,
              <<FKeepConnectsOpen, FReuseConnects>>}

RunArgLists ==
    {RunArgs(UrlHttp, t, n, tail) : t \in 0..MaxCalls, n \in 0..MaxThreads, tail \in BoolTails}

ArgLists == ShortArgLists \cup RunArgLists

---------------------------------------------------------------------------
(* Program constants *)

DefaultTotalCalls == 10000
DefaultNumThreads == 12
DefaultSleepTime == 0
DefaultRequestTimeout == 10000
DefaultConnectTimeout == 30000
\* pool_max_idle_per_host(num_threads * 10)
IdlePerThread == 10

\* owner of the mutex guard: nobody, or main (a task is named by its thread_id)
NoOwner == -1
MainOwner == -2

---------------------------------------------------------------------------
(* State *)

VARIABLES
    args,               \* env::args().collect()
    pc,                 \* position of main
    exit_status,        \* "running", or how the process ended: "Ok", "Err", "panic"
    out,                \* what main printed to standard output, in order
    i,                  \* index of the flag scan
    total_calls, num_threads, sleep_time, request_timeout, connect_timeout,
    reuse_connects, keep_connects_open,
    client,             \* the reqwest Client
    mutex,              \* "absent" before Arc::new(Mutex::new(..)), then "unlocked" / "locked"
    owner,              \* who holds the MutexGuard
    response_times,     \* the Vec<f64> inside the mutex
    task,               \* thread_id -> the spawned fetch_data task (handles)
    net_calls,          \* number of GET requests put on the network
    wire,               \* the Connection header values those requests carried
    average_response_time

config == <<total_calls, num_threads, sleep_time, request_timeout, connect_timeout,
            reuse_connects, keep_connects_open>>
shared == <<mutex, owner, response_times>>
network == <<net_calls, wire>>
vars == <<args, pc, exit_status, out, i, config, client, shared, task, network,
          average_response_time>>

url == args[1]

NoClient ==
    [built |-> FALSE, timeout |-> 0, connect_timeout |-> 0, pool_max_idle_per_host |-> 0,
     danger_accept_invalid_certs |-> FALSE, Connection |-> "none"]

\* f64 average: a quotient kept exact, or NaN (0.0 / 0.0)
NoAverage == [computed |-> FALSE, nan |-> FALSE, sum |-> 0, len |-> 0]

InitWith(argLists) ==
    /\ args \in argLists
    /\ pc = "start"
    /\ exit_status = "running"
    /\ out = <<>>
    /\ i = 0
    /\ total_calls = 0
    /\ num_threads = 0
    /\ sleep_time = 0
    /\ request_timeout = 0
    /\ connect_timeout = 0
    /\ reuse_connects = FALSE
    /\ keep_connects_open = FALSE
    /\ client = NoClient
    /\ mutex = "absent"
    /\ owner = NoOwner
    /\ response_times = <<>>
    /\ task = <<>>
    /\ net_calls = 0
    /\ wire = {}
    /\ average_response_time = NoAverage

Init == InitWith(ArgLists)

---------------------------------------------------------------------------
(* main: the argument checks, lines 56-74 *)

\* main returns Ok(()) after printing `lines`
ReturnOk(lines) ==
    /\ out' = out \o lines
    /\ pc' = "exit"
    /\ exit_status' = "Ok"

\* line 64 looking at args[1] only
HasHelpFirst(a) == 1 \in DOMAIN a /\ a[1] \in HelpFlags

\* line 64
HasHelp(a) == \E k \in DOMAIN a : a[k] \in HelpFlags

\* line 70 accepting any scheme
ValidUrlAnyScheme == \E k \in 1..Len(url) : url[k] = ":"

\* line 70
ValidUrl == starts_with(to_lowercase(url), <<"h","t","t","p">>)

NoArguments ==
    /\ pc = "start"
    /\ ArgsLen(args) < 2
    /\ ReturnOk(<<"ErrNoArgs", "Help">>)
    /\ UNCHANGED <<args, i, config, client, shared, task, network, average_response_time>>

HelpRequested ==
    /\ pc = "start"
    /\ ~(ArgsLen(args) < 2)
    /\ HasHelp(args)
    /\ ReturnOk(<<"Help">>)
    /\ UNCHANGED <<args, i, config, client, shared, task, network, average_response_time>>

InvalidUrl ==
    /\ pc = "start"
    /\ ~(ArgsLen(args) < 2)
    /\ ~HasHelp(args)
    /\ ~ValidUrl
    /\ ReturnOk(<<"ErrInvalidUrl", "Help">>)
    /\ UNCHANGED <<args, i, config, client, shared, task, network, average_response_time>>

\* lines 76-84: the defaults, and i = 2
BeginScan ==
    /\ pc = "start"
    /\ ~(ArgsLen(args) < 2)
    /\ ~HasHelp(args)
    /\ ValidUrl
    /\ total_calls' = DefaultTotalCalls
    /\ num_threads' = DefaultNumThreads
    /\ sleep_time' = DefaultSleepTime
    /\ request_timeout' = DefaultRequestTimeout
    /\ connect_timeout' = DefaultConnectTimeout
    /\ reuse_connects' = FALSE
    /\ keep_connects_open' = FALSE
    /\ i' = 2
    /\ pc' = "scan"
    /\ UNCHANGED <<args, exit_status, out, client, shared, task, network, average_response_time>>

---------------------------------------------------------------------------
(* main: the flag scan, lines 85-119 *)

AtToken(flag) ==
    /\ pc = "scan"
    /\ i < ArgsLen(args)
    /\ args[i] = flag

\* args[i + 1] is out of bounds, or .parse() is an Err and .expect() panics
ValuePanics == i + 1 >= ArgsLen(args) \/ parse(args[i + 1]) = ParseErr

Panic ==
    /\ pc' = "exit"
    /\ exit_status' = "panic"
    /\ UNCHANGED <<args, out, i, config, client, shared, task, network, average_response_time>>

ScanTotalCalls ==
    /\ AtToken(FTotalCalls)
    /\ IF ValuePanics THEN Panic
       ELSE /\ total_calls' = parse(args[i + 1])
            /\ i' = i + 2
            /\ UNCHANGED <<args, pc, exit_status, out, num_threads, sleep_time, request_timeout,
                           connect_timeout, reuse_connects, keep_connects_open, client, shared,
                           task, network, average_response_time>>

ScanNumThreads ==
    /\ AtToken(FNumThreads)
    /\ IF ValuePanics THEN Panic
       ELSE /\ num_threads' = parse(args[i + 1])
            /\ i' = i + 2
            /\ UNCHANGED <<args, pc, exit_status, out, total_calls, sleep_time, request_timeout,
                           connect_timeout, reuse_connects, keep_connects_open, client, shared,
                           task, network, average_response_time>>

\* a sleepTime arm that keeps the default when the value does not parse
ScanSleepTimeLenient ==
    /\ AtToken(FSleepTime)
    /\ i + 1 < ArgsLen(args)
    /\ sleep_time' = IF parse(args[i + 1]) = ParseErr THEN sleep_time ELSE parse(args[i + 1])
    /\ i' = i + 2
    /\ UNCHANGED <<args, pc, exit_status, out, total_calls, num_threads, request_timeout,
                   connect_timeout, reuse_connects, keep_connects_open, client, shared,
                   task, network, average_response_time>>

ScanSleepTime ==
    /\ AtToken(FSleepTime)
    /\ IF ValuePanics THEN Panic
       ELSE /\ sleep_time' = parse(args[i + 1])
            /\ i' = i + 2
            /\ UNCHANGED <<args, pc, exit_status, out, total_calls, num_threads, request_timeout,
                           connect_timeout, reuse_connects, keep_connects_open, client, shared,
                           task, network, average_response_time>>

ScanRequestTimeOut ==
    /\ AtToken(FRequestTimeOut)
    /\ IF ValuePanics THEN Panic
       ELSE /\ request_timeout' = parse(args[i + 1])
            /\ i' = i + 2
            /\ UNCHANGED <<args, pc, exit_status, out, total_calls, num_threads, sleep_time,
                           connect_timeout, reuse_connects, keep_connects_open, client, shared,
                           task, network, average_response_time>>

ScanConnectTimeOut ==
    /\ AtToken(FConnectTimeOut)
    /\ IF ValuePanics THEN Panic
       ELSE /\ connect_timeout' = parse(args[i + 1])
            /\ i' = i + 2
            /\ UNCHANGED <<args, pc, exit_status, out, total_calls, num_threads, sleep_time,
                           request_timeout, reuse_connects, keep_connects_open, client, shared,
                           task, network, average_response_time>>

ScanReuseConnects ==
    /\ AtToken(FReuseConnects)
    /\ reuse_connects' = TRUE
    /\ i' = i + 1
    /\ UNCHANGED <<args, pc, exit_status, out, total_calls, num_threads, sleep_time,
                   request_timeout, connect_timeout, keep_connects_open, client, shared,
                   task, network, average_response_time>>

\* the keepConnectsOpen arm as a copy of the reuseConnects arm
ScanKeepSetsReuse ==
    /\ AtToken(FKeepConnectsOpen)
    /\ reuse_connects' = TRUE
    /\ i' = i + 1
    /\ UNCHANGED <<args, pc, exit_status, out, total_calls, num_threads, sleep_time,
                   request_timeout, connect_timeout, keep_connects_open, client, shared,
                   task, network, average_response_time>>

ScanKeepConnectsOpen ==
    /\ AtToken(FKeepConnectsOpen)
    /\ keep_connects_open' = TRUE
    /\ i' = i + 1
    /\ UNCHANGED <<args, pc, exit_status, out, total_calls, num_threads, sleep_time,
                   request_timeout, connect_timeout, reuse_connects, client, shared,
                   task, network, average_response_time>>

\* the `_` arm
ScanOther ==
    /\ pc = "scan"
    /\ i < ArgsLen(args)
    /\ args[i] \notin NumericFlags \cup BoolFlags
    /\ i' = i + 1
    /\ UNCHANGED <<args, pc, exit_status, out, config, client, shared, task, network,
                   average_response_time>>

\* the while condition is false
ScanEnd ==
    /\ pc = "scan"
    /\ ~(i < ArgsLen(args))
    /\ pc' = "build"
    /\ UNCHANGED <<args, exit_status, out, i, config, client, shared, task, network,
                   average_response_time>>

---------------------------------------------------------------------------
(* main: the client, lines 121-140 *)

\* the builder without line 137
ClientConfigPoolKept ==
    [built |-> TRUE,
     timeout |-> request_timeout,
     connect_timeout |-> connect_timeout,
     pool_max_idle_per_host |-> num_threads * IdlePerThread,
     danger_accept_invalid_certs |->
         starts_with(to_lowercase(url), <<"h","t","t","p","s">>),
     Connection |-> IF reuse_connects THEN "keep-alive" ELSE "close"]

\* the ClientBuilder as configured by lines 121-138
ClientConfig ==
    [built |-> TRUE,
     timeout |-> request_timeout,
     connect_timeout |-> connect_timeout,
     pool_max_idle_per_host |-> IF reuse_connects THEN num_threads * IdlePerThread ELSE 0,
     danger_accept_invalid_certs |->
         starts_with(to_lowercase(url), <<"h","t","t","p","s">>),
     Connection |-> IF reuse_connects THEN "keep-alive" ELSE "close"]

\* client_builder.build() is Ok
BuildClient ==
    /\ pc = "build"
    /\ client' = ClientConfig
    /\ pc' = "launch"
    /\ UNCHANGED <<args, exit_status, out, i, config, shared, task, network,
                   average_response_time>>

\* an Err of build() that main does not return
BuildClientFailsIgnored ==
    /\ pc = "build"
    /\ pc' = "launch"
    /\ UNCHANGED <<args, exit_status, out, i, config, client, shared, task, network,
                   average_response_time>>

\* client_builder.build() is an Err, which `?` returns from main
BuildClientFails ==
    /\ pc = "build"
    /\ pc' = "exit"
    /\ exit_status' = "Err"
    /\ UNCHANGED <<args, out, i, config, client, shared, task, network,
                   average_response_time>>

---------------------------------------------------------------------------
(* main: the pool, lines 142-158 *)

\* the pool is explored for counts up to these
WithinBounds(maxCalls, maxThreads) == total_calls <= maxCalls /\ num_threads <= maxThreads

\* lines 142-145: the shared vector, the handles, the start time
LaunchWithin(maxCalls, maxThreads) ==
    /\ pc = "launch"
    /\ WithinBounds(maxCalls, maxThreads)
    /\ mutex' = "unlocked"
    /\ response_times' = <<>>
    /\ pc' = "spawn"
    /\ UNCHANGED <<args, exit_status, out, i, config, client, owner, task, network,
                   average_response_time>>

Launch == LaunchWithin(MaxCalls, MaxThreads)

\* handles.len(), which is the loop variable of lines 147-156
Spawned == Cardinality(DOMAIN task)

\* the comparison of line 148 with <= for <
NumCallsInclusive(id) ==
    (total_calls \div num_threads) + (IF id <= total_calls % num_threads THEN 1 ELSE 0)

\* line 148
NumCalls(id) ==
    (total_calls \div num_threads) + (IF id < total_calls % num_threads THEN 1 ELSE 0)

NewTask(id) ==
    [pc |-> "for", i |-> 0, num_calls |-> NumCalls(id), response |-> "none",
     response_time |-> 0, body_read |-> 0, lines |-> 0, sent |-> 0, pushed |-> 0]

\* one iteration of the for loop of lines 147-156: tokio::spawn
Spawn ==
    /\ pc = "spawn"
    /\ Spawned < num_threads
    /\ task' = task @@ (Spawned :> NewTask(Spawned))
    /\ UNCHANGED <<args, pc, exit_status, out, i, config, client, shared, network,
                   average_response_time>>

SpawnEnd ==
    /\ pc = "spawn"
    /\ ~(Spawned < num_threads)
    /\ pc' = "join"
    /\ UNCHANGED <<args, exit_status, out, i, config, client, shared, task, network,
                   average_response_time>>

AllFinished == \A id \in DOMAIN task : task[id].pc = "done"

\* a join that does not wait
JoinAllNoWait ==
    /\ pc = "join"
    /\ pc' = "report"
    /\ UNCHANGED <<args, exit_status, out, i, config, client, shared, task, network,
                   average_response_time>>

\* line 158: join_all(handles).await returns when every task has finished
JoinAll ==
    /\ pc = "join"
    /\ AllFinished
    /\ pc' = "report"
    /\ UNCHANGED <<args, exit_status, out, i, config, client, shared, task, network,
                   average_response_time>>

---------------------------------------------------------------------------
(* main: the summary, lines 160-174 *)

RECURSIVE Sum(_)
Sum(s) == IF s = <<>> THEN 0 ELSE Head(s) + Sum(Tail(s))

\* line 166: sum / len in f64; 0.0 / 0.0 is NaN
Average(v) ==
    [computed |-> TRUE, nan |-> Len(v) = 0, sum |-> Sum(v), len |-> Len(v)]

\* lines 165-174: lock, average, the four lines, Ok(())
Report ==
    /\ pc = "report"
    /\ mutex = "unlocked"
    /\ mutex' = "locked"
    /\ owner' = MainOwner
    /\ average_response_time' = Average(response_times)
    /\ ReturnOk(<<"TotalTime", "Average", "RequestsPerSecond", "AllFinished">>)
    /\ UNCHANGED <<args, i, config, client, response_times, task, network>>

---------------------------------------------------------------------------
(* fetch_data, lines 25-52 *)

Latencies == 1..MaxLatency

At(id, where) == id \in DOMAIN task /\ task[id].pc = where

\* the range of line 27 as 0..=num_calls
SendInclusive(id) ==
    /\ At(id, "for")
    /\ task[id].i <= task[id].num_calls
    /\ task' = [task EXCEPT ![id].pc = "send_await", ![id].sent = @ + 1]
    /\ net_calls' = net_calls + 1
    /\ wire' = wire \cup {client.Connection}
    /\ UNCHANGED <<args, pc, exit_status, out, i, config, client, shared,
                   average_response_time>>

\* lines 27-29: the loop goes on, and the GET request is sent with the client's headers
Send(id) ==
    /\ At(id, "for")
    /\ task[id].i < task[id].num_calls
    /\ task' = [task EXCEPT ![id].pc = "send_await", ![id].sent = @ + 1]
    /\ net_calls' = net_calls + 1
    /\ wire' = wire \cup {client.Connection}
    /\ UNCHANGED <<args, pc, exit_status, out, i, config, client, shared,
                   average_response_time>>

\* lines 29-32: a response or an error arrives; the elapsed time is taken
Respond(id) ==
    /\ At(id, "send_await")
    /\ \E r \in {"Ok", "Err"}, ms \in Latencies :
           task' = [task EXCEPT ![id].pc = "match", ![id].response = r,
                                ![id].response_time = ms]
    /\ UNCHANGED <<args, pc, exit_status, out, i, config, client, shared, network,
                   average_response_time>>

\* line 38 without the negation
MatchOkReadWhenKept(id) ==
    /\ At(id, "match")
    /\ task[id].response = "Ok"
    /\ keep_connects_open
    /\ task' = [task EXCEPT ![id].pc = "bytes_await"]
    /\ UNCHANGED <<args, pc, exit_status, out, i, config, client, shared, network,
                   average_response_time>>

\* lines 36-38: Ok, and the body is to be read
MatchOkRead(id) ==
    /\ At(id, "match")
    /\ task[id].response = "Ok"
    /\ ~keep_connects_open
    /\ task' = [task EXCEPT ![id].pc = "bytes_await"]
    /\ UNCHANGED <<args, pc, exit_status, out, i, config, client, shared, network,
                   average_response_time>>

\* lines 39-41: resp.bytes().await is over (its result is dropped); the line is printed
BytesDone(id) ==
    /\ At(id, "bytes_await")
    /\ task' = [task EXCEPT ![id].pc = "lock", ![id].body_read = @ + 1,
                            ![id].lines = @ + 1]
    /\ UNCHANGED <<args, pc, exit_status, out, i, config, client, shared, network,
                   average_response_time>>

\* lines 36-41: Ok, and the body is left alone; the line is printed
MatchOkKeep(id) ==
    /\ At(id, "match")
    /\ task[id].response = "Ok"
    /\ keep_connects_open
    /\ task' = [task EXCEPT ![id].pc = "lock", ![id].lines = @ + 1]
    /\ UNCHANGED <<args, pc, exit_status, out, i, config, client, shared, network,
                   average_response_time>>

\* an Err arm that returns from fetch_data
MatchErrReturns(id) ==
    /\ At(id, "match")
    /\ task[id].response = "Err"
    /\ task' = [task EXCEPT ![id].pc = "done", ![id].lines = @ + 1]
    /\ UNCHANGED <<args, pc, exit_status, out, i, config, client, shared, network,
                   average_response_time>>

\* an Err arm that leaves the elapsed time out of the vector
MatchErrUnrecorded(id) ==
    /\ At(id, "match")
    /\ task[id].response = "Err"
    /\ task' = [task EXCEPT ![id].pc = "sleep", ![id].lines = @ + 1]
    /\ UNCHANGED <<args, pc, exit_status, out, i, config, client, shared, network,
                   average_response_time>>

\* an Err arm that goes on with the next iteration at once
MatchErrContinues(id) ==
    /\ At(id, "match")
    /\ task[id].response = "Err"
    /\ task' = [task EXCEPT ![id].pc = "for", ![id].i = @ + 1, ![id].lines = @ + 1,
                            ![id].response = "none", ![id].response_time = 0]
    /\ UNCHANGED <<args, pc, exit_status, out, i, config, client, shared, network,
                   average_response_time>>

\* lines 43-45: Err; the line is printed
MatchErr(id) ==
    /\ At(id, "match")
    /\ task[id].response = "Err"
    /\ task' = [task EXCEPT ![id].pc = "lock", ![id].lines = @ + 1]
    /\ UNCHANGED <<args, pc, exit_status, out, i, config, client, shared, network,
                   average_response_time>>

\* lock() that does not wait for the guard to be free
LockNoWait(id) ==
    /\ At(id, "lock")
    /\ mutex' = "locked"
    /\ owner' = id
    /\ task' = [task EXCEPT ![id].pc = "push"]
    /\ UNCHANGED <<args, pc, exit_status, out, i, config, client, response_times, network,
                   average_response_time>>

\* line 48: response_times.lock() returns the guard when the mutex is free
Lock(id) ==
    /\ At(id, "lock")
    /\ mutex = "unlocked"
    /\ mutex' = "locked"
    /\ owner' = id
    /\ task' = [task EXCEPT ![id].pc = "push"]
    /\ UNCHANGED <<args, pc, exit_status, out, i, config, client, response_times, network,
                   average_response_time>>

\* a push whose guard is never dropped
PushKeepsGuard(id) ==
    /\ At(id, "push")
    /\ response_times' = Append(response_times, task[id].response_time)
    /\ task' = [task EXCEPT ![id].pc = "sleep", ![id].pushed = @ + 1]
    /\ UNCHANGED <<args, pc, exit_status, out, i, config, client, mutex, owner, network,
                   average_response_time>>

\* line 48: .push(response_time); the guard is dropped at the end of the statement
Push(id) ==
    /\ At(id, "push")
    /\ response_times' = Append(response_times, task[id].response_time)
    /\ mutex' = "unlocked"
    /\ owner' = NoOwner
    /\ task' = [task EXCEPT ![id].pc = "sleep", ![id].pushed = @ + 1]
    /\ UNCHANGED <<args, pc, exit_status, out, i, config, client, network,
                   average_response_time>>

\* lines 50-51: the sleep is over, the iteration ends
Sleep(id) ==
    /\ At(id, "sleep")
    /\ task' = [task EXCEPT ![id].pc = "for", ![id].i = @ + 1, ![id].response = "none",
                            ![id].response_time = 0]
    /\ UNCHANGED <<args, pc, exit_status, out, i, config, client, shared, network,
                   average_response_time>>

\* line 27: the range is exhausted, fetch_data returns
Return(id) ==
    /\ At(id, "for")
    /\ ~(task[id].i < task[id].num_calls)
    /\ task' = [task EXCEPT ![id].pc = "done"]
    /\ UNCHANGED <<args, pc, exit_status, out, i, config, client, shared, network,
                   average_response_time>>

---------------------------------------------------------------------------
(* The program *)

Main ==
    \/ NoArguments
    \/ HelpRequested
    \/ InvalidUrl
    \/ BeginScan
    \/ ScanTotalCalls
    \/ ScanNumThreads
    \/ ScanSleepTime
    \/ ScanRequestTimeOut
    \/ ScanConnectTimeOut
    \/ ScanReuseConnects
    \/ ScanKeepConnectsOpen
    \/ ScanOther
    \/ ScanEnd
    \/ BuildClient
    \/ BuildClientFails
    \/ Launch
    \/ Spawn
    \/ SpawnEnd
    \/ JoinAll
    \/ Report

Workers ==
    \/ \E id \in DOMAIN task : Send(id)
    \/ \E id \in DOMAIN task : Respond(id)
    \/ \E id \in DOMAIN task : MatchOkRead(id)
    \/ \E id \in DOMAIN task : BytesDone(id)
    \/ \E id \in DOMAIN task : MatchOkKeep(id)
    \/ \E id \in DOMAIN task : MatchErr(id)
    \/ \E id \in DOMAIN task : Lock(id)
    \/ \E id \in DOMAIN task : Push(id)
    \/ \E id \in DOMAIN task : Sleep(id)
    \/ \E id \in DOMAIN task : Return(id)

Next == Main \/ Workers

Spec == Init /\ [][Next]_vars

\* the steps of one task
Worker(id) ==
    \/ Send(id)
    \/ Respond(id)
    \/ MatchOkRead(id)
    \/ BytesDone(id)
    \/ MatchOkKeep(id)
    \/ MatchErr(id)
    \/ Lock(id)
    \/ Push(id)
    \/ Sleep(id)
    \/ Return(id)

\* The tokio runtime keeps polling main and every spawned task that can run, and
\* every request comes back (the request and connect timeouts bound it).
FairSpec ==
    /\ Spec
    /\ WF_vars(Main)
    /\ \A id \in 0..MaxThreads : WF_vars(id \in DOMAIN task /\ Worker(id))

---------------------------------------------------------------------------
(* The launch loop alone, for larger counts: main runs up to the join while  *)
(* no spawned task has been polled yet.                                      *)

AssignArgLists ==
    {RunArgs(UrlHttp, t, n, <<>>) : t \in 0..MaxAssignCalls, n \in 0..MaxAssignThreads}

InitAssign == InitWith(AssignArgLists)

LaunchAssign == LaunchWithin(MaxAssignCalls, MaxAssignThreads)

NextAssign ==
    \/ BeginScan
    \/ ScanTotalCalls
    \/ ScanNumThreads
    \/ ScanEnd
    \/ BuildClient
    \/ BuildClientFails
    \/ LaunchAssign
    \/ Spawn
    \/ SpawnEnd

SpecAssign == InitAssign /\ [][NextAssign]_vars

---------------------------------------------------------------------------
(* A pool of ManyThreads tasks with one call each.                           *)

ManyArgLists ==
    {RunArgs(UrlHttp, ManyThreads, ManyThreads, tail) : tail \in {<<>>, <<FKeepConnectsOpen>>}}

InitMany == InitWith(ManyArgLists)

LaunchMany == LaunchWithin(ManyThreads, ManyThreads)

NextMany ==
    \/ BeginScan
    \/ ScanTotalCalls
    \/ ScanNumThreads
    \/ ScanKeepConnectsOpen
    \/ ScanEnd
    \/ BuildClient
    \/ BuildClientFails
    \/ LaunchMany
    \/ Spawn
    \/ SpawnEnd
    \/ JoinAll
    \/ Report
    \/ Workers

SpecMany == InitMany /\ [][NextMany]_vars

---------------------------------------------------------------------------
(* The flag scan alone, over longer argument lists after a valid URL.        *)

ScanTokens ==
    NumericFlags \cup BoolFlags \cup {Unknown, NotInt, Numeral(1), Numeral(2)}

ScanArgLists == {MkArgs(<<Prog, UrlHttp>> \o s) : s \in SeqsUpTo(ScanTokens, MaxScanArgs)}

InitScan == InitWith(ScanArgLists)

NextScan ==
    \/ BeginScan
    \/ ScanTotalCalls
    \/ ScanNumThreads
    \/ ScanSleepTime
    \/ ScanRequestTimeOut
    \/ ScanConnectTimeOut
    \/ ScanReuseConnects
    \/ ScanKeepConnectsOpen
    \/ ScanOther
    \/ ScanEnd

SpecScan == InitScan /\ [][NextScan]_vars

---------------------------------------------------------------------------
(* Claims *)

\* the quotient and the remainder of a by b > 0, by their defining property
Quotient(a, b) == CHOOSE q \in 0..a : q * b <= a /\ a < (q + 1) * b
Remainder(a, b) == a - Quotient(a, b) * b

RECURSIVE AssignedUpTo(_)
AssignedUpTo(n) == IF n = 0 THEN 0 ELSE task[n - 1].num_calls + AssignedUpTo(n - 1)

\* C1: with num_threads > 0, the task spawned as worker id is given
\* floor(total_calls / num_threads) calls, and one more exactly when
\* id < total_calls mod num_threads; once all num_threads tasks are spawned
\* their counts add up to total_calls.
C1_Assignment ==
    (mutex # "absent" /\ num_threads > 0) =>
        /\ DOMAIN task = 0..(Spawned - 1)
        /\ \A id \in DOMAIN task :
               task[id].num_calls =
                   Quotient(total_calls, num_threads)
                   + (IF id < Remainder(total_calls, num_threads) THEN 1 ELSE 0)
        /\ (pc # "spawn" => Spawned = num_threads /\ AssignedUpTo(Spawned) = total_calls)

\* C1: -totalCalls 4 -numThreads 3 has given 2, 1, 1
C1_Witness ==
    /\ total_calls = 4 /\ num_threads = 3
    /\ pc = "join"
    /\ Spawned = 3
    /\ task[0].num_calls = 2 /\ task[1].num_calls = 1 /\ task[2].num_calls = 1

\* C2: when main reads the vector for the summary (the pool was launched and
\* joined), its length is total_calls.
C2_LengthIsTotalCalls ==
    pc = "report" => Len(response_times) = total_calls

\* the number of pushes task id has completed: one per finished iteration,
\* and the one of the current iteration once the task is past line 48
Pushed(id) == task[id].i + (IF task[id].pc = "sleep" THEN 1 ELSE 0)

RECURSIVE PushedUpTo(_)
PushedUpTo(n) == IF n = 0 THEN 0 ELSE Pushed(n - 1) + PushedUpTo(n - 1)

InCriticalSection == {id \in DOMAIN task : task[id].pc = "push"}

\* C3: at most one task is between lock() and the drop of the guard, that task
\* owns the mutex, and the vector holds one entry per push completed so far.
C3_ExclusiveAppend ==
    /\ Cardinality(InCriticalSection) <= 1
    /\ \A id \in InCriticalSection : mutex = "locked" /\ owner = id
    /\ Len(response_times) = PushedUpTo(Spawned)

\* C3: one task is pushing while another waits for the lock, after an earlier push
C3_Witness ==
    /\ \E a, b \in DOMAIN task : a # b /\ task[a].pc = "push" /\ task[b].pc = "lock"
    /\ Len(response_times) >= 1

\* C4: every step of a task whose current call failed is the next step of the
\* iteration: from the match to the lock with the elapsed time kept, then the
\* push of that elapsed time, then the sleep and the next index; the request is
\* not sent again, no other task is touched and the process keeps running.
C4_FailureIsLocal ==
    [][\A id \in DOMAIN task :
          (task[id].response = "Err" /\ task'[id] # task[id]) =>
              /\ task[id].pc = "match" =>
                     /\ task'[id] = [task[id] EXCEPT !.pc = "lock", !.lines = @ + 1]
                     /\ response_times' = response_times
              /\ task[id].pc = "lock" =>
                     /\ task'[id] = [task[id] EXCEPT !.pc = "push"]
                     /\ response_times' = response_times
              /\ task[id].pc = "push" =>
                     /\ task'[id] = [task[id] EXCEPT !.pc = "sleep", !.pushed = @ + 1]
                     /\ response_times' = Append(response_times, task[id].response_time)
              /\ task[id].pc = "sleep" =>
                     /\ task'[id].pc = "for"
                     /\ task'[id].i = task[id].i + 1
                     /\ task'[id].num_calls = task[id].num_calls
              /\ task[id].pc \in {"match", "lock", "push", "sleep"}
              /\ task'[id].sent = task[id].sent
              /\ net_calls' = net_calls
              /\ \A other \in DOMAIN task \ {id} : task'[other] = task[other]
              /\ exit_status' = "running" /\ pc' = pc
      ]_vars

\* C4: the first call of a task failed and its elapsed time was pushed; the
\* task has another call to make, and another task is in the middle of a call
C4_Witness ==
    \E id, other \in DOMAIN task :
        /\ id # other
        /\ task[id].response = "Err" /\ task[id].pc = "sleep"
        /\ task[id].i = 0 /\ task[id].num_calls = 2
        /\ response_times = <<task[id].response_time>>
        /\ task[other].pc = "send_await"

\* C5: main is at the summary only when every one of the num_threads tasks has
\* returned from fetch_data, and from then on the vector does not change.
C5_ReadAfterJoin ==
    [][/\ (pc' \in {"report", "exit"} /\ mutex' # "absent") =>
              (Spawned' = num_threads' /\ AllFinished')
       /\ (pc \in {"report", "exit"} => response_times' = response_times)
       /\ (average_response_time'.computed /\ ~average_response_time.computed) =>
              (pc = "report" /\ AllFinished
               /\ average_response_time'.len = Len(response_times))
      ]_vars

\* C5: the summary was computed over the three entries two tasks pushed
C5_Witness ==
    /\ average_response_time.computed
    /\ average_response_time.len = 3
    /\ Spawned = 2

Summary == <<"TotalTime", "Average", "RequestsPerSecond", "AllFinished">>

\* C6: once the pool is launched, the run ends: every task makes all of its
\* calls and returns, the join returns, and main prints the summary with the
\* completion marker and returns Ok.
C6_Completes ==
    (pc = "spawn") ~>
        /\ pc = "exit" /\ exit_status = "Ok"
        /\ out = Summary
        /\ Spawned = num_threads
        /\ \A id \in DOMAIN task :
               task[id].pc = "done" /\ task[id].sent = task[id].num_calls

\* C6: a run of two tasks and three calls has ended with the summary
C6_Witness ==
    /\ pc = "exit" /\ exit_status = "Ok" /\ out = Summary
    /\ Spawned = 2 /\ net_calls = 3 /\ Len(response_times) = 3

\* what the claims say of the argument list, in their own words
Arguments == DOMAIN args \ {0}
HelpGiven == \E k \in Arguments : args[k] = HelpQ \/ args[k] = HelpLong
UrlStartsWithHttp ==
    /\ 1 \in DOMAIN args
    /\ Len(args[1]) >= 4
    /\ args[1][1] \in {"h", "H"} /\ args[1][2] \in {"t", "T"}
    /\ args[1][3] \in {"t", "T"} /\ args[1][4] \in {"p", "P"}
ReuseGiven == \E k \in Arguments : args[k] = FReuseConnects

\* no client, no task, no request
NoNetworkActivity ==
    /\ ~client.built
    /\ mutex = "absent"
    /\ DOMAIN task = {}
    /\ net_calls = 0 /\ wire = {}

\* C7 as claimed, for a first argument that is not itself a help flag:
\* whenever it does not start with "http", the run ends with the invalid-URL
\* error and without network activity.
C7_Original ==
    (1 \in DOMAIN args /\ ~UrlStartsWithHttp /\ args[1] \notin {HelpQ, HelpLong}) =>
        /\ NoNetworkActivity
        /\ pc = "exit" => exit_status = "Ok" /\ out = <<"ErrInvalidUrl", "Help">>

\* C7: when the first argument does not start with "http" (any case) and no
\* argument is a help flag, main prints the invalid-URL error and the help
\* text and returns Ok; no client is built, no task spawned, no request sent.
C7_InvalidUrl ==
    (1 \in DOMAIN args /\ ~UrlStartsWithHttp /\ ~HelpGiven) =>
        /\ NoNetworkActivity
        /\ pc \in {"start", "exit"}
        /\ pc = "start" => ENABLED InvalidUrl
        /\ pc = "exit" => exit_status = "Ok" /\ out = <<"ErrInvalidUrl", "Help">>

\* C7: the run with the ftp URL followed by other tokens has ended
C7_Witness ==
    /\ ArgsLen(args) = 4 /\ args[1] = UrlFtp /\ args[2] = FTotalCalls /\ args[3] = NotInt
    /\ pc = "exit" /\ out = <<"ErrInvalidUrl", "Help">>

\* a decimal integer: an optional sign and one or more digits
IsInteger(s) ==
    LET body == IF s # <<>> /\ s[1] \in {"+", "-"} THEN Tail(s) ELSE s
    IN  body # <<>> /\ \A k \in 1..Len(body) : IsDigit(body[k])

\* some numeric flag after the URL is followed by a token that is no integer
NonIntegerValueGiven ==
    \E k \in Arguments :
        /\ k >= 2 /\ k + 1 \in Arguments
        /\ args[k] \in NumericFlags
        /\ ~IsInteger(args[k + 1])

\* the process has ended by the panic of the flag scan
PanickedInScan == pc = "exit" /\ exit_status = "panic"

\* C8 as claimed: whenever a numeric flag has a non-integer value, the run can
\* only end by the panic of the flag scan, with no network activity.
C8_Original ==
    NonIntegerValueGiven =>
        /\ NoNetworkActivity
        /\ pc = "exit" => PanickedInScan

\* C8: when the URL is valid, no argument is a help flag and a numeric flag
\* has a non-integer value, main never gets past the flag scan: the process
\* ends by the panic there, before the client is built and before any task
\* is spawned or request sent.
C8_ParsePanics ==
    (NonIntegerValueGiven /\ UrlStartsWithHttp /\ ~HelpGiven) =>
        /\ NoNetworkActivity
        /\ pc \in {"start", "scan", "exit"}
        /\ pc = "start" => ENABLED BeginScan
        /\ pc = "scan" => i < ArgsLen(args)
        /\ pc = "exit" => PanickedInScan

\* C8: -sleepTime 2x has panicked in the scan
C8_Witness ==
    /\ ArgsLen(args) = 4 /\ args[2] = FSleepTime /\ args[3] = NotInt
    /\ PanickedInScan /\ i = 2

\* C9: when any argument is -? or --help, main prints the help text and
\* returns Ok; no client is built, no task spawned, no request sent.
C9_Help ==
    HelpGiven =>
        /\ NoNetworkActivity
        /\ pc \in {"start", "exit"}
        /\ pc = "start" => ENABLED HelpRequested
        /\ pc = "exit" => exit_status = "Ok" /\ out = <<"Help">>

\* C9: --help as the last argument, after a numeric flag, has ended the run
C9_Witness ==
    /\ ArgsLen(args) = 4 /\ args[1] = UrlHttp /\ args[2] = FTotalCalls /\ args[3] = HelpLong
    /\ pc = "exit" /\ out = <<"Help">>

\* C10: the built client has Connection: keep-alive and 10 * num_threads
\* idle connections when -reuseConnects is among the arguments, Connection:
\* close and no idle connection otherwise; every request sent carries the
\* header of that client, and none is sent before the client is built.
C10_ConnectionPolicy ==
    /\ client.built =>
           /\ ReuseGiven =>
                  /\ client.Connection = "keep-alive"
                  /\ client.pool_max_idle_per_host = 10 * num_threads
           /\ ~ReuseGiven =>
                  /\ client.Connection = "close"
                  /\ client.pool_max_idle_per_host = 0
           /\ pc # "build"
    /\ wire = IF net_calls = 0 THEN {} ELSE {client.Connection}
    /\ net_calls > 0 => client.built

\* C10: two tasks have sent their requests with keep-alive
C10_Witness ==
    /\ ReuseGiven
    /\ client.pool_max_idle_per_host = 20
    /\ net_calls >= 2 /\ wire = {"keep-alive"}
    /\ \E a, b \in DOMAIN task : a # b /\ task[a].sent > 0 /\ task[b].sent > 0

\* main is past the flag scan: the configuration is final
ConfigResolved == pc \in {"build", "launch", "spawn", "join", "report"}

\* C11: once the flag scan is over, total_calls and num_threads are both at
\* least 1.
C11_PositiveCounts ==
    ConfigResolved => total_calls >= 1 /\ num_threads >= 1

\* C12: when the average is computed in a run with total_calls > 0, the vector
\* is not empty: the divisor is not zero and the average is a number.
C12_NonEmptyLog ==
    (average_response_time.computed /\ total_calls > 0) =>
        /\ Len(response_times) > 0
        /\ average_response_time.len > 0
        /\ ~average_response_time.nan

\* the sum of the entries of s taken value by value, whatever their order
RECURSIVE SumOfValues(_, _)
SumOfValues(s, values) ==
    IF values = {} THEN 0
    ELSE LET v == CHOOSE x \in values : TRUE
         IN  v * Cardinality({k \in DOMAIN s : s[k] = v}) + SumOfValues(s, values \ {v})

EntriesSum(s) == SumOfValues(s, {s[k] : k \in DOMAIN s})

\* C13: the average printed is the sum of the entries of the vector over their
\* number (NaN when there is none), whatever the order of the entries, and
\* there is one entry per request sent; every task that leaves line 48 has
\* appended the elapsed time taken at line 32, after an Ok as after an Err,
\* and that elapsed time is not changed between line 32 and line 48.
C13_Average ==
    /\ [](average_response_time.computed =>
              /\ average_response_time.len = Len(response_times)
              /\ average_response_time.sum = EntriesSum(response_times)
              /\ average_response_time.nan = (Len(response_times) = 0)
              /\ average_response_time.len = net_calls)
    /\ [][\A id \in DOMAIN task :
              /\ (task[id].pc = "push" /\ task'[id].pc # "push") =>
                     /\ task[id].response \in {"Ok", "Err"}
                     /\ response_times' = Append(response_times, task[id].response_time)
              /\ (task[id].pc \in {"match", "bytes_await", "lock"} /\ task'[id] # task[id]) =>
                     /\ task'[id].response_time = task[id].response_time
                     /\ task'[id].pc \in {"bytes_await", "lock", "push"}
         ]_vars

\* C13: the average of the three entries 2, 1, 2 of two tasks was computed
C13_Witness ==
    /\ average_response_time.computed
    /\ response_times = <<2, 1, 2>>
    /\ average_response_time.sum = 5 /\ average_response_time.len = 3
    /\ Spawned = 2

\* C14: main gets past line 140 only with a built client; when build() fails
\* main returns the Err at once: nothing was printed, the vector does not
\* exist, no task was spawned, no request sent and no average computed.
C14_BuildFailure ==
    /\ pc \in {"launch", "spawn", "join", "report"} => client.built
    /\ mutex # "absent" => client.built
    /\ exit_status = "Err" =>
           /\ pc = "exit"
           /\ NoNetworkActivity
           /\ response_times = <<>>
           /\ out = <<>>
           /\ ~average_response_time.computed
    /\ (pc = "exit" /\ exit_status = "Ok" /\ out = Summary) => client.built

\* C14: build() failed in a run whose arguments asked for three calls by two tasks
C14_Witness ==
    /\ exit_status = "Err"
    /\ total_calls = 3 /\ num_threads = 2
    /\ ~client.built /\ mutex = "absent" /\ net_calls = 0

\* the task is between the send of a request and the end of its iteration
InCall(id) == task[id].pc \in {"send_await", "match", "bytes_await", "lock", "push", "sleep"}

\* C15: a task has sent at most one request more than the iterations it has
\* finished, and only while it is inside that iteration; a request is sent
\* only by a task at the head of the loop, with index i equal to the number of
\* requests sent, of lines printed and of elapsed times pushed so far, so after
\* the response, the line, the push and the sleep of every earlier index.
C15_Sequential ==
    /\ [](\A id \in DOMAIN task :
              /\ task[id].i <= task[id].num_calls
              /\ task[id].sent = task[id].i + (IF InCall(id) THEN 1 ELSE 0)
              /\ task[id].sent - task[id].pushed \in {0, 1}
              /\ task[id].pc = "send_await" =>
                     task[id].lines = task[id].i /\ task[id].pushed = task[id].i)
    /\ [][\A id \in DOMAIN task :
              /\ task'[id].sent # task[id].sent =>
                     /\ task[id].pc = "for" /\ task'[id].pc = "send_await"
                     /\ task'[id].sent = task[id].sent + 1
                     /\ task'[id].i = task[id].i
                     /\ task[id].sent = task[id].i
                     /\ task[id].lines = task[id].i
                     /\ task[id].pushed = task[id].i
              /\ task'[id].i # task[id].i =>
                     /\ task[id].pc = "sleep"
                     /\ task'[id].i = task[id].i + 1
                     /\ task[id].lines = task'[id].i /\ task[id].pushed = task'[id].i
         ]_vars

\* C15: a task is waiting for the response to its second request, after the
\* line and the push of the first
C15_Witness ==
    \E id \in DOMAIN task :
        /\ task[id].pc = "send_await" /\ task[id].i = 1 /\ task[id].sent = 2
        /\ task[id].lines = 1 /\ task[id].pushed = 1
        /\ Len(response_times) >= 1

\* the task is at an .await: the response, the body or the sleep
Suspended(id) == task[id].pc \in {"send_await", "bytes_await", "sleep"}

\* a task at the head of its loop can go on, and so can a task inside line 48
CanIssueOrPush(b) ==
    /\ task[b].pc = "for" => ENABLED (Send(b) \/ Return(b))
    /\ (task[b].pc = "for" /\ task[b].i < task[b].num_calls) => ENABLED Send(b)
    /\ task[b].pc = "push" => ENABLED Push(b)

\* C16 as claimed: no suspended task owns the guard, and while a task is
\* suspended every other task that is at the head of its loop or at line 48
\* can take its step.
C16_Original ==
    \A a \in DOMAIN task :
        Suspended(a) =>
            /\ owner # a
            /\ \A b \in DOMAIN task \ {a} :
                   /\ CanIssueOrPush(b)
                   /\ task[b].pc = "lock" => ENABLED Lock(b)

\* C16: no suspended task owns the guard: whoever owns it is inside the push of
\* line 48; while a task is suspended, every other task at the head of its
\* loop can take its step, and a task waiting at lock() can take it unless a
\* third task is inside its push at that moment, which that task can finish.
C16_SuspensionDoesNotBlock ==
    /\ \A id \in DOMAIN task : owner = id => task[id].pc = "push"
    /\ \A a \in DOMAIN task :
           Suspended(a) =>
               /\ owner # a
               /\ \A b \in DOMAIN task \ {a} :
                      /\ CanIssueOrPush(b)
                      /\ task[b].pc = "lock" =>
                             \/ ENABLED Lock(b)
                             \/ \E c \in DOMAIN task \ {a, b} :
                                    /\ task[c].pc = "push" /\ owner = c
                                    /\ ENABLED Push(c)

\* C16: one task sleeps, one awaits its response, and the third is at lock()
\* with the mutex free
C16_Witness ==
    \E a, b, c \in DOMAIN task :
        /\ task[a].pc = "sleep" /\ task[c].pc = "send_await" /\ task[b].pc = "lock"
        /\ mutex = "unlocked"
        /\ ENABLED Lock(b)

RECURSIVE SentUpTo(_)
SentUpTo(n) == IF n = 0 THEN 0 ELSE task[n - 1].sent + SentUpTo(n - 1)

\* C17: the tasks spawned are numbered 0..Spawned-1 with Spawned <= num_threads;
\* no task has sent more requests than the calls it was given, the requests
\* on the network are those of the tasks and at most total_calls; a request
\* is sent with the index equal to the number the task sent before; once
\* main is past the join there are exactly num_threads tasks and each has
\* sent exactly its count.
C17_EachCallOnce ==
    /\ [](/\ Spawned <= num_threads
          /\ DOMAIN task = 0..(Spawned - 1)
          /\ \A id \in DOMAIN task : task[id].sent <= task[id].num_calls
          /\ net_calls = SentUpTo(Spawned)
          /\ net_calls <= total_calls
          /\ (pc \in {"report", "exit"} /\ mutex # "absent") =>
                 /\ Spawned = num_threads
                 /\ \A id \in DOMAIN task : task[id].sent = task[id].num_calls)
    /\ [][\A id \in DOMAIN task :
              task'[id].sent # task[id].sent =>
                  /\ task'[id].sent = task[id].sent + 1
                  /\ task[id].i = task[id].sent
                  /\ net_calls' = net_calls + 1
         ]_vars

\* C17: both tasks of a run of three calls have sent their counts, 2 and 1
C17_Witness ==
    /\ total_calls = 3 /\ num_threads = 2 /\ Spawned = 2
    /\ pc = "exit"
    /\ task[0].sent = 2 /\ task[1].sent = 1 /\ net_calls = 3

\* C18: a task reads a body only at bytes().await, which it reaches only from
\* an Ok response with keep_connects_open false; after such a response it
\* gets to line 48 only through the body read, so before the push and before
\* its next request; after an Err, or with the flag set, it goes from the
\* match to line 48 without a body read; the body read changes neither the
\* elapsed time taken at line 32 nor the vector.
C18_BodyHandling ==
    /\ [](\A id \in DOMAIN task :
              /\ keep_connects_open => task[id].body_read = 0
              /\ task[id].body_read <= task[id].pushed + (IF task[id].pc \in {"lock", "push"} THEN 1 ELSE 0)
              /\ task[id].pc = "bytes_await" =>
                     /\ task[id].response = "Ok" /\ ~keep_connects_open
                     /\ task[id].response_time \in Latencies
                     /\ task[id].pushed = task[id].i /\ task[id].sent = task[id].i + 1)
    /\ [][\A id \in DOMAIN task :
              /\ task'[id].body_read # task[id].body_read =>
                     /\ task[id].pc = "bytes_await" /\ task'[id].pc = "lock"
                     /\ task'[id].body_read = task[id].body_read + 1
                     /\ task'[id].response_time = task[id].response_time
                     /\ task'[id].sent = task[id].sent
                     /\ response_times' = response_times
              /\ (task[id].pc = "match" /\ task'[id].pc # "match") =>
                     IF task[id].response = "Ok" /\ ~keep_connects_open
                     THEN task'[id].pc = "bytes_await"
                     ELSE task'[id].pc = "lock" /\ task'[id].body_read = task[id].body_read
              /\ (task[id].pc # "lock" /\ task'[id].pc = "lock"
                  /\ task[id].response = "Ok" /\ ~keep_connects_open) =>
                     /\ task[id].pc = "bytes_await"
                     /\ task'[id].body_read = task[id].body_read + 1
         ]_vars

\* C18: without the flag a task has read the body of its second Ok response and
\* is at line 48, the first elapsed time pushed and the second still to push
C18_Witness ==
    /\ ~keep_connects_open
    /\ \E id \in DOMAIN task :
           /\ task[id].pc = "lock" /\ task[id].response = "Ok"
           /\ task[id].body_read = 2 /\ task[id].pushed = 1 /\ task[id].sent = 2

\* the configuration as a record, and the field each flag stands for
RunConfig ==
    [total_calls |-> total_calls, num_threads |-> num_threads, sleep_time |-> sleep_time,
     request_timeout |-> request_timeout, connect_timeout |-> connect_timeout,
     reuse_connects |-> reuse_connects, keep_connects_open |-> keep_connects_open]

FieldOf(flag) ==
    CASE flag = FTotalCalls -> "total_calls"
      [] flag = FNumThreads -> "num_threads"
      [] flag = FSleepTime -> "sleep_time"
      [] flag = FRequestTimeOut -> "request_timeout"
      [] flag = FConnectTimeOut -> "connect_timeout"
      [] flag = FReuseConnects -> "reuse_connects"
      [] flag = FKeepConnectsOpen -> "keep_connects_open"

\* where a flag occurs after the URL, and the value after its last occurrence
Occurrences(flag) == {k \in DOMAIN args : k >= 2 /\ args[k] = flag}
LastOf(S) == CHOOSE k \in S : \A m \in S : m <= k
ValueOr(flag, default) ==
    IF Occurrences(flag) = {} THEN default
    ELSE DigitsVal(LET v == args[LastOf(Occurrences(flag)) + 1]
                   IN  IF v[1] = "+" THEN Tail(v) ELSE v)

\* C19: a step of the scan at a token that is no flag moves to the next token
\* and changes no field, without ending the process; a step at a flag that
\* does not end the process changes the field of that flag only (to the value
\* that follows, or to true) and moves past the flag and its value; when the
\* scan is over, every field is its default unless its flag occurs, and then
\* the value after the last occurrence of the flag (true for the two switches).
C19_ScanFrame ==
    /\ [](pc = "build" =>
              RunConfig =
                  [total_calls |-> ValueOr(FTotalCalls, 10000),
                   num_threads |-> ValueOr(FNumThreads, 12),
                   sleep_time |-> ValueOr(FSleepTime, 0),
                   request_timeout |-> ValueOr(FRequestTimeOut, 10000),
                   connect_timeout |-> ValueOr(FConnectTimeOut, 30000),
                   reuse_connects |-> (Occurrences(FReuseConnects) # {}),
                   keep_connects_open |-> (Occurrences(FKeepConnectsOpen) # {})])
    /\ [][(pc = "scan" /\ i < ArgsLen(args)) =>
              /\ args[i] \notin NumericFlags \cup BoolFlags =>
                     /\ RunConfig' = RunConfig
                     /\ i' = i + 1
                     /\ pc' = "scan" /\ exit_status' = "running"
              /\ (args[i] \in BoolFlags) =>
                     /\ RunConfig' = [RunConfig EXCEPT ![FieldOf(args[i])] = TRUE]
                     /\ i' = i + 1
                     /\ pc' = "scan" /\ exit_status' = "running"
              /\ (args[i] \in NumericFlags /\ exit_status' = "running") =>
                     /\ RunConfig' =
                            [RunConfig EXCEPT ![FieldOf(args[i])] = parse(args[i + 1])]
                     /\ parse(args[i + 1]) >= 0
                     /\ i' = i + 2
                     /\ pc' = "scan"
              /\ exit_status' # "running" => RunConfig' = RunConfig
         ]_vars

\* C19: -totalCalls 1 -totalCalls 2 has been scanned: the later value stands
\* and the other fields are the defaults
C19_Witness ==
    /\ ArgsLen(args) = 6
    /\ args[2] = FTotalCalls /\ args[3] = Numeral(1)
    /\ args[4] = FTotalCalls /\ args[5] = Numeral(2)
    /\ pc = "build"
    /\ total_calls = 2 /\ num_threads = 12 /\ ~reuse_connects

\* C20: during the scan the index is between 2 and the number of arguments,
\* and when it is at a numeric flag the value read, args[i + 1], is inside the
\* argument list.
C20_ScanInBounds ==
    pc = "scan" =>
        /\ 2 <= i /\ i <= ArgsLen(args)
        /\ (i < ArgsLen(args) /\ args[i] \in NumericFlags) => i + 1 < ArgsLen(args)

============================================================================
